---- MODULE Spec2Model ----
(***************************************************************************)
(* A model of the entity/component store of src/src/world.rs (struct       *)
(* World).  The store is a counter, entities_count, and a vector of        *)
(* type-erased component vectors, component_vecs.  A component vector of   *)
(* Rust type Vec<Option<T>> is the record [ctype |-> T, slots |-> s]: the  *)
(* field ctype is the TypeId the downcast compares, and s is the sequence  *)
(* of slots.  An Option is a sequence of length at most one: None is <<>>  *)
(* and Some(x) is <<x>>.  Rust indexes from 0 and TLA+ from 1, so entity e *)
(* lives at slots[e + 1].                                                  *)
(*                                                                         *)
(* Every public method of World is one action.  A panic (the bounds check  *)
(* of an indexing expression) is recorded in last.panicked; the unwinding  *)
(* leaves the World exactly as the statements executed so far made it.     *)
(***************************************************************************)
EXTENDS Naturals, Sequences, FiniteSets

\* Bound of the model: new_entity is called at most this many times.
MaxEntities == 2

\* The component types (TypeIds) and component values the callers draw from.
Types == {"Mesh", "Material"}
Values == {"v1", "v2"}

\* Placeholder for an argument an operation does not take.
NoType == "-"
NoValue == "-"

VARIABLES
    entities_count,   \* World.entities_count
    component_vecs,   \* World.component_vecs
    last,             \* the last call: method, arguments, return value, panic
    pre,              \* the World as it was before the last call
    returned_ids,     \* every id new_entity has returned, in call order
    added_types,      \* the types a returning add_component_to_entity stored
    written,          \* the <<entity, type>> pairs such an add wrote
    controller,       \* CameraController: the four is_*_pressed flags
    control_flow,     \* the event loop's *control_flow
    size,             \* State.size
    config,           \* State.config: width and height
    app_last,         \* the last event handled: what it was, what it did
    app_pre,          \* controller, control_flow, size, config before it
    latest_press      \* per flag: the latest event on its keys was a press

world_vars == <<entities_count, component_vecs, last, pre, returned_ids,
                added_types, written>>

app_vars == <<controller, control_flow, size, config, app_last, app_pre,
              latest_press>>

vars == <<world_vars, app_vars>>

\* Option<T>
None == <<>>
Some(x) == <<x>>
is_some(o) == o # None
is_none(o) == o = None

\* The World value made of the two fields.
World == [entities_count |-> entities_count, component_vecs |-> component_vecs]

\* World::new as it would be with the count started at one.
WorldNewCountOne == [entities_count |-> 1, component_vecs |-> <<>>]

\* World::new
WorldNew == [entities_count |-> 0, component_vecs |-> <<>>]

Min(a, b) == IF a < b THEN a ELSE b

----------------------------------------------------------------------------
(* Helpers of the methods *)

\* push_none as it would be with insert(0, None) in place of push(None).
push_none_front(slots) == <<None>> \o slots

\* push_none as it would be if it repeated the last slot.
push_none_copy_last(slots) ==
    Append(slots, IF slots = <<>> THEN None ELSE slots[Len(slots)])

\* push_none as it would be if the push were forgotten.
push_none_skipped(slots) == slots

\* ComponentVec::push_none: self.push(None)
push_none(slots) == Append(slots, None)

\* A downcast that never succeeds (a wrong target type).
downcast_never(component_vec, T) == FALSE

\* A downcast that accepts a vector of any type.
downcast_any(component_vec, T) == TRUE

\* The downcast of one boxed component vector to Vec<Option<T>>: it succeeds
\* exactly when the boxed vector's type is Vec<Option<T>>.
downcast(component_vec, T) == component_vec.ctype = T

\* The loop `for component_vec in self.component_vecs.iter()` with the
\* downcast inside: the position of the first vector of type T, 0 if none.
FindVec(vecs, T) ==
    IF \E i \in 1..Len(vecs) : downcast(vecs[i], T)
    THEN CHOOSE i \in 1..Len(vecs) :
            /\ downcast(vecs[i], T)
            /\ \A j \in 1..(i - 1) : ~downcast(vecs[j], T)
    ELSE 0

\* The indexed write as it would be with fill(Some(component)).
IndexAssignFill(slots, entity, component) ==
    IF entity < Len(slots)
    THEN [panicked |-> FALSE,
          slots |-> [k \in 1..Len(slots) |-> Some(component)]]
    ELSE [panicked |-> TRUE, slots |-> slots]

\* The indexed write as it would be if it rebuilt the vector around the
\* new value.
IndexAssignReset(slots, entity, component) ==
    IF entity < Len(slots)
    THEN [panicked |-> FALSE,
          slots |-> [k \in 1..Len(slots) |->
                       IF k = entity + 1 THEN Some(component) ELSE None]]
    ELSE [panicked |-> TRUE, slots |-> slots]

\* The indexed write as it would be if it wrote into a copy of the vector.
IndexAssignDropped(slots, entity, component) ==
    [panicked |-> entity >= Len(slots), slots |-> slots]

\* The indexed write as it would be with Vec::insert in place of the index.
IndexAssignInsert(slots, entity, component) ==
    IF entity < Len(slots)
    THEN [panicked |-> FALSE,
          slots |-> SubSeq(slots, 1, entity) \o <<Some(component)>>
                      \o SubSeq(slots, entity + 1, Len(slots))]
    ELSE [panicked |-> TRUE, slots |-> slots]

\* The indexed write as it would be if an out-of-range index were ignored
\* without a panic.
IndexAssignSilent(slots, entity, component) ==
    IF entity < Len(slots)
    THEN [panicked |-> FALSE,
          slots |-> [slots EXCEPT ![entity + 1] = Some(component)]]
    ELSE [panicked |-> FALSE, slots |-> slots]

\* The indexed write as it would be if the vector were resized to hold an
\* out-of-range index.
IndexAssignGrow(slots, entity, component) ==
    LET grown == [k \in 1..(IF entity < Len(slots) THEN Len(slots)
                                                   ELSE entity + 1) |->
                    IF k <= Len(slots) THEN slots[k] ELSE None]
    IN  [panicked |-> FALSE,
         slots |-> [grown EXCEPT ![entity + 1] = Some(component)]]

\* The statement `vec[entity] = Some(component)`: IndexMut on a Vec checks
\* entity < vec.len() and panics otherwise, before anything is written.
IndexAssign(slots, entity, component) ==
    IF entity < Len(slots)
    THEN [panicked |-> FALSE,
          slots |-> [slots EXCEPT ![entity + 1] = Some(component)]]
    ELSE [panicked |-> TRUE, slots |-> slots]

\* Vec::get as it would be with the index taken one too low.
VecGetOffByOne(slots, entity) ==
    IF entity >= 1 /\ entity <= Len(slots) THEN Some(slots[entity]) ELSE None

\* Vec::get(entity): None when entity is out of bounds.
VecGet(slots, entity) ==
    IF entity < Len(slots) THEN Some(slots[entity + 1]) ELSE None

\* borrow_component_vec as it would be if it returned the first vector
\* whatever its type.
borrow_component_vec_first(w, T) ==
    IF w.component_vecs = <<>> THEN None
    ELSE Some(w.component_vecs[1].slots)

\* World::borrow_component_vec::<T>: Some(the vector's slots) or None.
borrow_component_vec(w, T) ==
    LET i == FindVec(w.component_vecs, T)
    IN  IF i = 0 THEN None ELSE Some(w.component_vecs[i].slots)

\* get_component as it would be without the range check and with the last
\* slot standing in for a missing one.
get_component_clamped(w, T, entity) ==
    LET vec == borrow_component_vec(w, T)
    IN  IF is_none(vec) \/ vec[1] = <<>>
        THEN None
        ELSE vec[1][Min(entity + 1, Len(vec[1]))]

\* World::get_component::<T>(entity)
get_component(w, T, entity) ==
    IF entity >= w.entities_count
    THEN None
    ELSE LET vec == borrow_component_vec(w, T)
         IN  IF is_none(vec)
             THEN None
             ELSE LET slot == VecGet(vec[1], entity)
                  IN  IF is_none(slot) THEN None ELSE slot[1]

\* The test of the loop body with || in place of &&.
EitherPresent(mesh, material) == is_some(mesh) \/ is_some(material)

\* The test of the loop body of query_entities_with_material_and_mesh.
BothPresent(mesh, material) == is_some(mesh) /\ is_some(material)

\* The loop as it would be if the first pair were skipped.
ZipLoopSkipFirst(mesh_vec, material_vec, entity_id, entities_with_both) ==
    [k \in 1..Cardinality({e \in 1..(Min(Len(mesh_vec), Len(material_vec)) - 1) :
                             BothPresent(mesh_vec[e + 1], material_vec[e + 1])})
       |-> CHOOSE e \in 1..(Min(Len(mesh_vec), Len(material_vec)) - 1) :
             /\ BothPresent(mesh_vec[e + 1], material_vec[e + 1])
             /\ Cardinality({d \in 1..e :
                   BothPresent(mesh_vec[d + 1], material_vec[d + 1])}) = k]

\* mesh_vec.iter().zip(material_vec.iter()).enumerate(), from entity_id on:
\* zip stops at the shorter vector; a match is pushed to entities_with_both.
RECURSIVE ZipLoop(_, _, _, _)
ZipLoop(mesh_vec, material_vec, entity_id, entities_with_both) ==
    IF entity_id >= Min(Len(mesh_vec), Len(material_vec))
    THEN entities_with_both
    ELSE ZipLoop(mesh_vec, material_vec, entity_id + 1,
                 IF BothPresent(mesh_vec[entity_id + 1],
                                material_vec[entity_id + 1])
                 THEN Append(entities_with_both, entity_id)
                 ELSE entities_with_both)

\* The query as it would be if a missing vector were left out of the test
\* instead of emptying the result.
query_with_missing_ignored(w, MeshType, MaterialType) ==
    LET mesh_vec == borrow_component_vec(w, MeshType)
        material_vec == borrow_component_vec(w, MaterialType)
    IN  CASE is_some(mesh_vec) /\ is_some(material_vec) ->
                ZipLoop(mesh_vec[1], material_vec[1], 0, <<>>)
          [] is_some(mesh_vec) /\ is_none(material_vec) ->
                ZipLoop(mesh_vec[1], mesh_vec[1], 0, <<>>)
          [] is_none(mesh_vec) /\ is_some(material_vec) ->
                ZipLoop(material_vec[1], material_vec[1], 0, <<>>)
          [] OTHER -> <<>>

\* World::query_entities_with_material_and_mesh::<MeshType, MaterialType>
query_entities_with_material_and_mesh(w, MeshType, MaterialType) ==
    LET mesh_vec == borrow_component_vec(w, MeshType)
        material_vec == borrow_component_vec(w, MaterialType)
    IN  IF is_some(mesh_vec) /\ is_some(material_vec)
        THEN ZipLoop(mesh_vec[1], material_vec[1], 0, <<>>)
        ELSE <<>>

\* The closure as it would be if it tested the material alone.
MaterialAbsentAlone(mesh, material_vec, entity_id) ==
    LET m == VecGet(material_vec, entity_id)
    IN  is_none(IF is_none(m) THEN None ELSE m[1])

\* The closure as it would be if it tested the mesh alone.
MeshAlone(mesh, material_vec, entity_id) == is_some(mesh)

\* The closure of the (Some, Some) arm: mesh.is_some() and
\* material_vec.get(entity_id).and_then(|m| m.as_ref()).is_none()
MeshWithoutMaterial(mesh, material_vec, entity_id) ==
    /\ is_some(mesh)
    /\ LET m == VecGet(material_vec, entity_id)
       IN  is_none(IF is_none(m) THEN None ELSE m[1])

\* mesh_vec.iter().enumerate().filter_map(..).collect() of the (Some, Some)
\* arm, from entity_id on.
RECURSIVE FilterBoth(_, _, _, _)
FilterBoth(mesh_vec, material_vec, entity_id, out) ==
    IF entity_id >= Len(mesh_vec)
    THEN out
    ELSE FilterBoth(mesh_vec, material_vec, entity_id + 1,
                    IF MeshWithoutMaterial(mesh_vec[entity_id + 1],
                                           material_vec, entity_id)
                    THEN Append(out, entity_id)
                    ELSE out)

\* The (Some, None) arm as it would be if it kept every index.
FilterMeshUntested(mesh_vec, entity_id, out) ==
    [k \in 1..Len(mesh_vec) |-> k - 1]

\* mesh_vec.iter().enumerate().filter_map(..).collect() of the (Some, None)
\* arm, from entity_id on.
RECURSIVE FilterMesh(_, _, _)
FilterMesh(mesh_vec, entity_id, out) ==
    IF entity_id >= Len(mesh_vec)
    THEN out
    ELSE FilterMesh(mesh_vec, entity_id + 1,
                    IF is_some(mesh_vec[entity_id + 1])
                    THEN Append(out, entity_id)
                    ELSE out)

\* The query as it would be if the last arm returned every entity.
query_with_only_missing_mesh_all(w, MeshType, MaterialType) ==
    LET mesh_vec == borrow_component_vec(w, MeshType)
        material_vec == borrow_component_vec(w, MaterialType)
    IN  CASE is_some(mesh_vec) /\ is_some(material_vec) ->
                FilterBoth(mesh_vec[1], material_vec[1], 0, <<>>)
          [] is_some(mesh_vec) /\ is_none(material_vec) ->
                FilterMesh(mesh_vec[1], 0, <<>>)
          [] OTHER -> [k \in 1..w.entities_count |-> k - 1]

\* World::query_entities_with_mesh_but_no_material::<MeshType, MaterialType>
query_entities_with_mesh_but_no_material(w, MeshType, MaterialType) ==
    LET mesh_vec == borrow_component_vec(w, MeshType)
        material_vec == borrow_component_vec(w, MaterialType)
    IN  CASE is_some(mesh_vec) /\ is_some(material_vec) ->
                FilterBoth(mesh_vec[1], material_vec[1], 0, <<>>)
          [] is_some(mesh_vec) /\ is_none(material_vec) ->
                FilterMesh(mesh_vec[1], 0, <<>>)
          [] OTHER -> <<>>

----------------------------------------------------------------------------
(* The window application of src/src/lib.rs: the camera controller's key   *)
(* flags, State::resize and the closure run() hands to event_loop.run.     *)
(* Rendering and camera arithmetic (State::update) are left out: they      *)
(* write neither the flags, nor size, nor config, nor control_flow.        *)

\* Bound of the model: a window dimension is at most this many pixels.
MaxDim == 2

\* winit::dpi::PhysicalSize<u32>
PhysicalSize(w, h) == [width |-> w, height |-> h]
Sizes == {PhysicalSize(w, h) : w \in 0..MaxDim, h \in 0..MaxDim}

\* VirtualKeyCode (the eight keys the controller knows, Escape, one more),
\* ElementState, MouseButton, wgpu::SurfaceError.
KeyCodes == {"W", "Up", "A", "Left", "S", "Down", "D", "Right", "Escape",
             "Space"}
ElementStates == {"Pressed", "Released"}
MouseButtons == {"Left", "Right"}
SurfaceErrors == {"Lost", "OutOfMemory", "Outdated", "Timeout"}
RenderResults == {"Ok"} \cup SurfaceErrors

\* Placeholders for the fields a kind of event does not carry.
NoField == "-"
NoSize == PhysicalSize(0, 0)

\* winit::event::WindowEvent
WindowEvent(kind, state, virtual_keycode, button, sz) ==
    [kind |-> kind, state |-> state, virtual_keycode |-> virtual_keycode,
     button |-> button, size |-> sz]

WindowEvents ==
    {WindowEvent("KeyboardInput", st, k, NoField, NoSize) :
        st \in ElementStates, k \in {None} \cup {Some(c) : c \in KeyCodes}}
    \cup {WindowEvent("CloseRequested", NoField, None, NoField, NoSize)}
    \cup {WindowEvent("Resized", NoField, None, NoField, sz) : sz \in Sizes}
    \cup {WindowEvent("ScaleFactorChanged", NoField, None, NoField, sz) :
            sz \in Sizes}
    \cup {WindowEvent("MouseInput", st, None, b, NoSize) :
            st \in ElementStates, b \in MouseButtons}
    \cup {WindowEvent("Focused", NoField, None, NoField, NoSize)}

NoWindowEvent == WindowEvent(NoField, NoField, None, NoField, NoSize)

\* winit::event::Event, with the window it is addressed to.
WindowIds == {"window", "other"}
Event(kind, window_id, event) ==
    [kind |-> kind, window_id |-> window_id, event |-> event]

Events ==
    {Event("WindowEvent", w, e) : w \in WindowIds, e \in WindowEvents}
    \cup {Event("RedrawRequested", w, NoWindowEvent) : w \in WindowIds}
    \cup {Event("MainEventsCleared", NoField, NoWindowEvent)}
    \cup {Event("Suspended", NoField, NoWindowEvent)}

\* CameraController::new
CameraControllerNew ==
    [is_forward_pressed |-> FALSE, is_backward_pressed |-> FALSE,
     is_left_pressed |-> FALSE, is_right_pressed |-> FALSE]

\* The inner match with the arms of A | Left and S | Down exchanged.
key_flag_swapped(keycode) ==
    CASE keycode \in {"W", "Up"} -> "is_forward_pressed"
      [] keycode \in {"A", "Left"} -> "is_backward_pressed"
      [] keycode \in {"S", "Down"} -> "is_left_pressed"
      [] keycode \in {"D", "Right"} -> "is_right_pressed"
      [] OTHER -> NoField

\* The inner match of process_key_events: the flag a keycode's arm writes.
key_flag(keycode) ==
    CASE keycode \in {"W", "Up"} -> "is_forward_pressed"
      [] keycode \in {"A", "Left"} -> "is_left_pressed"
      [] keycode \in {"S", "Down"} -> "is_backward_pressed"
      [] keycode \in {"D", "Right"} -> "is_right_pressed"
      [] OTHER -> NoField

\* CameraController::process_key_events: the controller it leaves and the
\* bool it returns.
process_key_events(ctrl, event) ==
    IF event.kind = "KeyboardInput" /\ is_some(event.virtual_keycode)
    THEN LET is_pressed == event.state = "Pressed"
             flag == key_flag(event.virtual_keycode[1])
         IN  IF flag = NoField
             THEN [controller |-> ctrl, ret |-> FALSE]
             ELSE [controller |-> [ctrl EXCEPT ![flag] = is_pressed],
                   ret |-> TRUE]
    ELSE [controller |-> ctrl, ret |-> FALSE]

\* State::input: the MouseInput arm only prints; the result is that of
\* process_key_events.
input(ctrl, event) == process_key_events(ctrl, event)

\* State::resize with || in place of &&.
resize_either_positive(st, new_size) ==
    IF new_size.width > 0 \/ new_size.height > 0
    THEN [st EXCEPT !.size = new_size,
                    !.config = PhysicalSize(new_size.width, new_size.height),
                    !.configured = TRUE,
                    !.resize_arg = Some(new_size)]
    ELSE [st EXCEPT !.resize_arg = Some(new_size)]

\* State::resize on the application state st; configured records the call
\* of surface.configure and resize_arg the argument of the call.
resize(st, new_size) ==
    IF new_size.width > 0 /\ new_size.height > 0
    THEN [st EXCEPT !.size = new_size,
                    !.config = PhysicalSize(new_size.width, new_size.height),
                    !.configured = TRUE,
                    !.resize_arg = Some(new_size)]
    ELSE [st EXCEPT !.resize_arg = Some(new_size)]

\* The test `if !state.input(event)` without its negation.
should_dispatch_inverted(consumed) == consumed

\* The test `if !state.input(event)`.
should_dispatch(consumed) == ~consumed

\* The match inside `if !state.input(event)`.
dispatch_window_event(st, event) ==
    CASE \/ event.kind = "CloseRequested"
         \/ /\ event.kind = "KeyboardInput"
            /\ event.state = "Pressed"
            /\ event.virtual_keycode = Some("Escape") ->
            [st EXCEPT !.control_flow = "Exit"]
      [] event.kind = "Resized" -> resize(st, event.size)
      [] event.kind = "ScaleFactorChanged" -> resize(st, event.size)
      [] OTHER -> st

\* The arm Event::WindowEvent { event, window_id } if window_id == window.id()
on_window_event(st, event) ==
    LET r == input(st.controller, event)
        st1 == [st EXCEPT !.controller = r.controller, !.consumed = r.ret]
    IN  IF should_dispatch(r.ret)
        THEN dispatch_window_event(st1, event)
        ELSE st1

\* The match on state.render() as it would be if every error ended the loop.
on_render_result_any_error_exits(st, result) ==
    IF result = "Ok" THEN st ELSE [st EXCEPT !.control_flow = "Exit"]

\* The match on state.render() of the RedrawRequested arm.
on_render_result(st, result) ==
    CASE result = "Ok" -> st
      [] result = "Lost" -> resize(st, st.size)
      [] result = "OutOfMemory" -> [st EXCEPT !.control_flow = "Exit"]
      [] OTHER -> st

\* The closure of event_loop.run, applied to one event; result is what
\* state.render() returns if the closure calls it.
event_handler(st, event, result) ==
    CASE event.kind = "WindowEvent" /\ event.window_id = "window" ->
            on_window_event(st, event.event)
      [] event.kind = "RedrawRequested" /\ event.window_id = "window" ->
            on_render_result(st, result)
      [] OTHER -> st

\* The application state the handlers work on, with the record of what the
\* handling of one event did.
AppState ==
    [controller |-> controller, control_flow |-> control_flow,
     size |-> size, config |-> config,
     consumed |-> FALSE, configured |-> FALSE, resize_arg |-> None]

\* The record of the handling of an event.
Handled(op, event, result, st) ==
    [op |-> op, event |-> event, render |-> result,
     consumed |-> st.consumed, configured |-> st.configured,
     resize_arg |-> st.resize_arg]

\* State::new and CameraController::new for a window of size sz, before
\* the first event.
AppStart(sz) ==
    /\ controller = CameraControllerNew
    /\ control_flow = "Poll"
    /\ size = sz
    /\ config = PhysicalSize(sz.width, sz.height)
    /\ app_last = Handled("start", Event(NoField, NoField, NoWindowEvent),
                          NoField, AppState)
    /\ app_pre = AppState
    /\ latest_press = CameraControllerNew

----------------------------------------------------------------------------
(* The state machine *)

\* The record of a call.
Call(op, entity, T1, T2, component, ret, panicked) ==
    [op |-> op, entity |-> entity, ctype |-> T1, ctype2 |-> T2,
     component |-> component, ret |-> ret, panicked |-> panicked]

\* World::new()
WorldInit ==
    /\ entities_count = WorldNew.entities_count
    /\ component_vecs = WorldNew.component_vecs
    /\ last = Call("new", 0, NoType, NoType, NoValue, <<>>, FALSE)
    /\ pre = WorldNew
    /\ returned_ids = <<>>
    /\ added_types = {}
    /\ written = {}

\* A new World, beside an application that has not handled an event.
Init == WorldInit /\ AppStart(PhysicalSize(MaxDim, MaxDim))

\* The id as it would be if it were read after the increment.
new_entity_id_after(count) == count + 1

\* The value new_entity returns: entity_id, read before the increment.
new_entity_id(count) == count

\* World::new_entity, the method itself.
NewEntityCall ==
    /\ LET entity_id == new_entity_id(entities_count)
       IN  /\ component_vecs' =
                 [i \in 1..Len(component_vecs) |->
                    [component_vecs[i] EXCEPT !.slots = push_none(@)]]
           /\ entities_count' = entities_count + 1
           /\ last' = Call("new_entity", 0, NoType, NoType, NoValue,
                           <<entity_id>>, FALSE)
           /\ returned_ids' = Append(returned_ids, entity_id)
    /\ pre' = World
    /\ UNCHANGED <<added_types, written>>
    /\ UNCHANGED app_vars

\* World::new_entity, called while fewer than MaxEntities entities exist.
NewEntity ==
    /\ entities_count < MaxEntities
    /\ NewEntityCall

\* The new vector as it would be with the loop run over 0..=entities_count.
new_component_vec_extra(count) == [k \in 1..(count + 1) |-> None]

\* The vector add_component_to_entity builds for a type it meets for the
\* first time: one None per existing entity.
new_component_vec(count) == [k \in 1..count |-> None]

\* add_component_to_entity as it would be if the new-collection branch
\* assigned component_vecs instead of pushing to it.
add_component_to_entity_replacing(w, entity, T, component) ==
    LET i == FindVec(w.component_vecs, T)
    IN  IF i # 0
        THEN LET r == IndexAssign(w.component_vecs[i].slots, entity, component)
             IN  [panicked |-> r.panicked,
                  component_vecs |->
                     IF r.panicked THEN w.component_vecs
                     ELSE [w.component_vecs EXCEPT ![i].slots = r.slots]]
        ELSE LET r == IndexAssign(new_component_vec(w.entities_count),
                                  entity, component)
             IN  [panicked |-> r.panicked,
                  component_vecs |->
                     IF r.panicked THEN w.component_vecs
                     ELSE <<[ctype |-> T, slots |-> r.slots]>>]

\* The component_vecs add_component_to_entity::<T>(entity, component) leaves
\* behind, and whether it panicked.
add_component_to_entity(w, entity, T, component) ==
    LET i == FindVec(w.component_vecs, T)
    IN  IF i # 0
        THEN \* the loop found the vector: write and return
             LET r == IndexAssign(w.component_vecs[i].slots, entity, component)
             IN  [panicked |-> r.panicked,
                  component_vecs |->
                     IF r.panicked THEN w.component_vecs
                     ELSE [w.component_vecs EXCEPT ![i].slots = r.slots]]
        ELSE \* no matching storage yet: build it, write, then push it
             LET r == IndexAssign(new_component_vec(w.entities_count),
                                  entity, component)
             IN  [panicked |-> r.panicked,
                  component_vecs |->
                     IF r.panicked THEN w.component_vecs
                     ELSE Append(w.component_vecs,
                                 [ctype |-> T, slots |-> r.slots])]

\* World::add_component_to_entity
AddComponentToEntity(entity, T, component) ==
    LET r == add_component_to_entity(World, entity, T, component)
    IN  /\ component_vecs' = r.component_vecs
        /\ last' = Call("add_component_to_entity", entity, T, NoType,
                        component, <<>>, r.panicked)
        /\ added_types' = IF r.panicked THEN added_types
                          ELSE added_types \cup {T}
        /\ written' = IF r.panicked THEN written
                      ELSE written \cup {<<entity, T>>}
        /\ pre' = World
        /\ UNCHANGED <<entities_count, returned_ids>>
        /\ UNCHANGED app_vars

\* get_component as it would be if a read registered a missing type.
GetComponentRegistering(entity, T) ==
    /\ last' = Call("get_component", entity, T, NoType, NoValue,
                    get_component(World, T, entity), FALSE)
    /\ component_vecs' =
          IF FindVec(component_vecs, T) # 0 THEN component_vecs
          ELSE Append(component_vecs,
                      [ctype |-> T, slots |-> new_component_vec(entities_count)])
    /\ pre' = World
    /\ UNCHANGED <<entities_count, returned_ids, added_types, written>>
    /\ UNCHANGED app_vars

\* World::get_component
GetComponent(entity, T) ==
    /\ last' = Call("get_component", entity, T, NoType, NoValue,
                    get_component(World, T, entity), FALSE)
    /\ pre' = World
    /\ UNCHANGED <<entities_count, component_vecs, returned_ids, added_types,
                 written>>
    /\ UNCHANGED app_vars

\* World::query_entities_with_material_and_mesh
QueryWith(T1, T2) ==
    /\ last' = Call("query_with", 0, T1, T2, NoValue,
                    query_entities_with_material_and_mesh(World, T1, T2),
                    FALSE)
    /\ pre' = World
    /\ UNCHANGED <<entities_count, component_vecs, returned_ids, added_types,
                 written>>
    /\ UNCHANGED app_vars

\* World::query_entities_with_mesh_but_no_material
QueryWithOnly(T1, T2) ==
    /\ last' = Call("query_with_only", 0, T1, T2, NoValue,
                    query_entities_with_mesh_but_no_material(World, T1, T2),
                    FALSE)
    /\ pre' = World
    /\ UNCHANGED <<entities_count, component_vecs, returned_ids, added_types,
                 written>>
    /\ UNCHANGED app_vars

\* The entity ids a caller may pass: every valid one and invalid ones.
EntityArgs == 0..MaxEntities

Next ==
    \/ NewEntity
    \/ \E e \in EntityArgs, T \in Types, v \in Values :
          AddComponentToEntity(e, T, v)
    \/ \E e \in EntityArgs, T \in Types : GetComponent(e, T)
    \/ \E T1 \in Types, T2 \in Types : QueryWith(T1, T2)
    \/ \E T1 \in Types, T2 \in Types : QueryWithOnly(T1, T2)

Spec == Init /\ [][Next]_vars

----------------------------------------------------------------------------
(* The end-to-end scenario: three entities e0, e1, e2; e0 is given a Mesh  *)
(* and a Material, e1 a Mesh, e2 nothing.  The calls come in any order     *)
(* that creates an entity before it is given a component.                  *)

ScenarioEntities == {0, 1, 2}
ScenarioGives == {<<0, "Mesh">>, <<0, "Material">>, <<1, "Mesh">>}

\* new_entity, until the three entities exist.
ScenarioNewEntity ==
    /\ entities_count < Cardinality(ScenarioEntities)
    /\ NewEntityCall

\* add_component_to_entity of one of the scenario's components, to an entity
\* that exists.
ScenarioAdd ==
    \E g \in ScenarioGives, v \in Values :
        /\ g[1] < entities_count
        /\ AddComponentToEntity(g[1], g[2], v)

ScenarioNext ==
    \/ ScenarioNewEntity
    \/ ScenarioAdd
    \/ \E T1 \in Types, T2 \in Types : QueryWith(T1, T2)
    \/ \E T1 \in Types, T2 \in Types : QueryWithOnly(T1, T2)

SpecScenario == Init /\ [][ScenarioNext]_vars

----------------------------------------------------------------------------
(* The application as a state machine: the camera controller called on    *)
(* its own, and the event loop handing events to the closure of run().    *)

\* The keys whose latest event each flag is said to follow.
FlagKeys ==
    [is_forward_pressed |-> {"W", "Up"}, is_left_pressed |-> {"A", "Left"},
     is_backward_pressed |-> {"S", "Down"}, is_right_pressed |-> {"D", "Right"}]
Flags == DOMAIN FlagKeys

\* For each flag, whether the latest keyboard event on one of its keys was
\* a press, once the window event has been seen after the history lp.
LatestPress(lp, event) ==
    IF event.kind = "KeyboardInput" /\ is_some(event.virtual_keycode)
    THEN [f \in Flags |->
            IF event.virtual_keycode[1] \in FlagKeys[f]
            THEN event.state = "Pressed"
            ELSE lp[f]]
    ELSE lp

\* The application state st becomes the current one after the handling
\* named op of event ev, where state.render() returned result.
Commit(op, ev, result, st) ==
    /\ controller' = st.controller
    /\ control_flow' = st.control_flow
    /\ size' = st.size
    /\ config' = st.config
    /\ app_last' = Handled(op, ev, result, st)
    /\ app_pre' = AppState
    /\ UNCHANGED world_vars

\* controller.process_key_events(&event)
ProcessKeyEvents ==
    \E event \in WindowEvents :
        LET r == process_key_events(controller, event)
        IN  /\ Commit("process_key_events",
                      Event("WindowEvent", "window", event), NoField,
                      [AppState EXCEPT !.controller = r.controller,
                                       !.consumed = r.ret])
            /\ latest_press' = LatestPress(latest_press, event)

CameraNext == ProcessKeyEvents

SpecCamera == Init /\ [][CameraNext]_vars

\* Whether the closure calls state.render() for the event.
Renders(ev) == ev.kind = "RedrawRequested" /\ ev.window_id = "window"

\* The event loop calls the closure with one event; the loop keeps
\* delivering the events already queued after control flow is set to Exit.
EventHandler ==
    \E ev \in Events :
        \E result \in IF Renders(ev) THEN RenderResults ELSE {NoField} :
            /\ Commit("event_handler", ev, result,
                      event_handler(AppState, ev, result))
            /\ latest_press' =
                 IF ev.kind = "WindowEvent" /\ ev.window_id = "window"
                 THEN LatestPress(latest_press, ev.event)
                 ELSE latest_press

AppNext == EventHandler

\* run(): State::new stores window.inner_size(), whatever it is, and
\* builds the configuration from it; it has no test of the size.
AppInit == WorldInit /\ \E sz \in Sizes : AppStart(sz)

SpecApp == AppInit /\ [][AppNext]_vars

----------------------------------------------------------------------------
(* What the claims speak of, stated on the stored data alone *)

\* The collections of type T held by world w (positions in component_vecs).
CollectionsOf(w, T) ==
    {i \in 1..Len(w.component_vecs) : w.component_vecs[i].ctype = T}

\* Type T has a collection in w.
Registered(w, T) == CollectionsOf(w, T) # {}

\* Entity e holds a T value in w.
Present(w, T, e) ==
    \E i \in CollectionsOf(w, T) :
        /\ e + 1 \in DOMAIN w.component_vecs[i].slots
        /\ w.component_vecs[i].slots[e + 1] # <<>>

\* Sequence s is strictly ascending.
StrictlyAscending(s) ==
    \A i, j \in 1..Len(s) : i < j => s[i] < s[j]

\* The set of the elements of sequence s.
Elements(s) == {s[i] : i \in 1..Len(s)}

\* The entity ids a read may be asked about, valid or not.
ReadArgs == 0..(MaxEntities + 1)

\* The last call was add_component_to_entity.
LastIsAdd == last.op = "add_component_to_entity"

----------------------------------------------------------------------------
(* The claims *)

\* C1: in every reachable state, every registered component collection has
\* length exactly entities_count.
C1_LengthInvariant ==
    \A i \in 1..Len(component_vecs) :
        Len(component_vecs[i].slots) = entities_count

\* C1 witness: new_entity has just grown two registered collections, next
\* to an earlier entity.
C1_Witness ==
    /\ last.op = "new_entity"
    /\ Len(pre.component_vecs) = 2
    /\ entities_count = 2

\* C2: get_component::<T>(e) right after add_component_to_entity(e, v) with
\* e < entities_count returns v (and the add did not panic), whether T was
\* registered before the call or by it.
C2_RoundTrip ==
    (LastIsAdd /\ last.entity < entities_count) =>
        /\ ~last.panicked
        /\ get_component(World, last.ctype, last.entity)
             = Some(last.component)

\* C2 witness: an add to the second entity that registered its type, while
\* another type was already registered.
C2_Witness ==
    /\ LastIsAdd
    /\ last.entity = 1
    /\ entities_count = 2
    /\ ~Registered(pre, last.ctype)
    /\ Len(pre.component_vecs) = 1
    /\ get_component(World, last.ctype, 1) = Some(last.component)

\* C3: query_with::<T1,T2> returns, strictly ascending and so without
\* duplicates, exactly the entities e < entities_count whose T1 slot and T2
\* slot are both present, in every reachable state; so does the result a
\* call recorded.
C3_QueryWith ==
    /\ \A T1 \in Types, T2 \in Types :
         LET r == query_entities_with_material_and_mesh(World, T1, T2)
         IN  /\ StrictlyAscending(r)
             /\ Elements(r) = {e \in 0..(entities_count - 1) :
                                 Present(World, T1, e) /\ Present(World, T2, e)}
    /\ last.op = "query_with" =>
         /\ StrictlyAscending(last.ret)
         /\ Elements(last.ret) =
              {e \in 0..(entities_count - 1) :
                 Present(World, last.ctype, e) /\ Present(World, last.ctype2, e)}

\* C3 witness: a query over two distinct types returned only the second
\* entity, the first one holding just one of the two types.
C3_Witness ==
    /\ last.op = "query_with"
    /\ last.ctype # last.ctype2
    /\ last.ret = <<1>>
    /\ Present(World, last.ctype, 0)
    /\ ~Present(World, last.ctype2, 0)

\* C4: in every reachable state in which T1 and T2 are both registered,
\* query_with_only::<T1,T2> returns, ascending, exactly the entities whose
\* T1 slot is present and whose T2 slot is absent.
C4_QueryWithOnly ==
    /\ \A T1 \in Types, T2 \in Types :
         (Registered(World, T1) /\ Registered(World, T2)) =>
           LET r == query_entities_with_mesh_but_no_material(World, T1, T2)
           IN  /\ StrictlyAscending(r)
               /\ Elements(r) = {e \in 0..(entities_count - 1) :
                                   Present(World, T1, e) /\ ~Present(World, T2, e)}
    /\ (/\ last.op = "query_with_only"
        /\ Registered(World, last.ctype)
        /\ Registered(World, last.ctype2)) =>
         /\ StrictlyAscending(last.ret)
         /\ Elements(last.ret) =
              {e \in 0..(entities_count - 1) :
                 Present(World, last.ctype, e) /\ ~Present(World, last.ctype2, e)}

\* C4 witness: with both types registered, the query returned only the
\* second entity and left out the first, which holds both types.
C4_Witness ==
    /\ last.op = "query_with_only"
    /\ last.ctype # last.ctype2
    /\ Registered(World, last.ctype2)
    /\ last.ret = <<1>>
    /\ Present(World, last.ctype, 0)
    /\ Present(World, last.ctype2, 0)

\* C5: each new_entity call returns the entities_count of before the call
\* and raises entities_count by exactly one, so the k-th call returns k-1,
\* whatever calls come in between.
C5_MonotonicIds ==
    /\ Len(returned_ids) = entities_count
    /\ \A k \in 1..Len(returned_ids) : returned_ids[k] = k - 1
    /\ last.op = "new_entity" =>
         /\ last.ret = <<pre.entities_count>>
         /\ entities_count = pre.entities_count + 1

\* C5 witness: the second new_entity call returned, after a component of
\* the first entity was stored in between.
C5_Witness ==
    /\ last.op = "new_entity"
    /\ last.ret = <<1>>
    /\ Present(World, "Mesh", 0)

\* C6: when entity e already holds a T value, add_component_to_entity(e, v2)
\* makes get_component::<T>(e) return v2, and changes neither the number of
\* collections nor the length of the T collection.
C6_Overwrite ==
    (LastIsAdd /\ Present(pre, last.ctype, last.entity)) =>
        /\ ~last.panicked
        /\ get_component(World, last.ctype, last.entity)
             = Some(last.component)
        /\ Len(component_vecs) = Len(pre.component_vecs)
        /\ \A i \in 1..Len(pre.component_vecs) :
             /\ component_vecs[i].ctype = pre.component_vecs[i].ctype
             /\ Len(component_vecs[i].slots)
                  = Len(pre.component_vecs[i].slots)

\* C6 witness: an add replaced a different value the entity held.
C6_Witness ==
    /\ LastIsAdd
    /\ Present(pre, last.ctype, last.entity)
    /\ get_component(pre, last.ctype, last.entity) # Some(last.component)
    /\ get_component(World, last.ctype, last.entity) = Some(last.component)

\* C7: add_component_to_entity(e, v) with e >= entities_count is surfaced as
\* a fault (a panic) and leaves the store exactly as it was: no collection
\* registered, no slot written, every length still entities_count.
C7_InvalidWriteNoCorruption ==
    (LastIsAdd /\ last.entity >= pre.entities_count) =>
        /\ last.panicked
        /\ World = pre
        /\ \A i \in 1..Len(component_vecs) :
             Len(component_vecs[i].slots) = entities_count

\* C7 witness: an out-of-range add to a registered type of a store with an
\* entity panicked.
C7_Witness ==
    /\ LastIsAdd
    /\ last.entity >= entities_count
    /\ entities_count >= 1
    /\ Registered(pre, last.ctype)
    /\ last.panicked

\* C8 as stated: a call with entity >= entities_count takes effect and
\* leaves a collection whose contents extend beyond entities_count.
C8_Original ==
    (LastIsAdd /\ last.entity >= pre.entities_count) =>
        \E i \in CollectionsOf(World, last.ctype) :
            /\ Len(component_vecs[i].slots) > entities_count
            /\ last.entity + 1 \in DOMAIN component_vecs[i].slots
            /\ component_vecs[i].slots[last.entity + 1] = Some(last.component)

\* C8 amended: the indexed write is bounds-checked, so a call with
\* entity >= entities_count panics, its value is stored in no collection at
\* that index, and no collection ever has contents beyond entities_count.
C8_OutOfRangeWritePanics ==
    /\ \A i \in 1..Len(component_vecs) :
         Len(component_vecs[i].slots) <= entities_count
    /\ (LastIsAdd /\ last.entity >= pre.entities_count) =>
         /\ last.panicked
         /\ ~Present(World, last.ctype, last.entity)

\* C8 witness: an out-of-range add of a type not yet registered panicked on
\* a store that has an entity, and the type is still unregistered.
C8_Witness ==
    /\ LastIsAdd
    /\ last.entity >= entities_count
    /\ entities_count >= 1
    /\ ~Registered(pre, last.ctype)
    /\ ~Registered(World, last.ctype)
    /\ last.panicked

\* C9: get_component::<T>(e) returns nothing for every e >= entities_count,
\* for every type, registered or not, and never faults.
C9_GetOutOfRange ==
    /\ \A T \in Types, e \in ReadArgs :
         e >= entities_count => get_component(World, T, e) = None
    /\ (last.op = "get_component" /\ last.entity >= entities_count) =>
         (last.ret = None /\ ~last.panicked)

\* C9 witness: a read just past the last entity of a registered type whose
\* last slot holds a value.
C9_Witness ==
    /\ last.op = "get_component"
    /\ last.entity = entities_count
    /\ entities_count >= 1
    /\ Present(World, last.ctype, entities_count - 1)
    /\ last.ret = None

\* C10: for a type U never passed to a returning add_component_to_entity,
\* get_component::<U>(e) returns nothing for every entity e, however many
\* entities and other types exist.
C10_AbsentUnregistered ==
    /\ \A U \in Types \ added_types, e \in ReadArgs :
         get_component(World, U, e) = None
    /\ (last.op = "get_component" /\ last.ctype \notin added_types) =>
         last.ret = None

\* C10 witness: a read of a valid entity for a type never added, while the
\* entity holds a value of another type.
C10_Witness ==
    /\ last.op = "get_component"
    /\ last.ctype \notin added_types
    /\ last.entity < entities_count
    /\ \E T \in added_types : Present(World, T, last.entity)
    /\ last.ret = None

\* C11: query_with::<T1,T2> returns the empty sequence whenever T1 or T2 has
\* never been registered, even if every entity holds the other type.
C11_QueryWithUnregistered ==
    /\ \A T1 \in Types, T2 \in Types :
         (T1 \notin added_types \/ T2 \notin added_types) =>
            query_entities_with_material_and_mesh(World, T1, T2) = <<>>
    /\ (/\ last.op = "query_with"
        /\ (last.ctype \notin added_types \/ last.ctype2 \notin added_types))
         => last.ret = <<>>

\* C11 witness: the query returned nothing although every one of the two
\* entities holds the registered type, the other type never being added.
C11_Witness ==
    /\ last.op = "query_with"
    /\ last.ctype \in added_types
    /\ last.ctype2 \notin added_types
    /\ entities_count = 2
    /\ \A e \in 0..1 : Present(World, last.ctype, e)
    /\ last.ret = <<>>

\* C12: when T1 is registered and T2 has never been registered,
\* query_with_only::<T1,T2> returns, ascending, exactly the entities whose
\* T1 slot is present.
C12_QueryWithOnlyUnregistered ==
    /\ \A T1 \in Types, T2 \in Types :
         (Registered(World, T1) /\ T2 \notin added_types) =>
           LET r == query_entities_with_mesh_but_no_material(World, T1, T2)
           IN  /\ StrictlyAscending(r)
               /\ Elements(r) = {e \in 0..(entities_count - 1) :
                                   Present(World, T1, e)}
    /\ (/\ last.op = "query_with_only"
        /\ Registered(World, last.ctype)
        /\ last.ctype2 \notin added_types) =>
         /\ StrictlyAscending(last.ret)
         /\ Elements(last.ret) = {e \in 0..(entities_count - 1) :
                                    Present(World, last.ctype, e)}

\* C12 witness: with the second type never added, the query returned the
\* second entity alone, the first one not holding the first type.
C12_Witness ==
    /\ last.op = "query_with_only"
    /\ last.ctype2 \notin added_types
    /\ last.ret = <<1>>
    /\ ~Present(World, last.ctype, 0)
    /\ Present(World, last.ctype, 1)

\* The scenario is complete: the three entities exist and exactly its
\* components have been given.
ScenarioDone ==
    /\ entities_count = Cardinality(ScenarioEntities)
    /\ written = ScenarioGives

\* C13: once e0, e1, e2 exist, e0 holds Mesh and Material, e1 only Mesh and
\* e2 neither, in whatever order that came about, query_with::<Mesh,Material>
\* returns exactly [e0] and query_with_only::<Mesh,Material> exactly [e1].
C13_Scenario ==
    ScenarioDone =>
        /\ query_entities_with_material_and_mesh(World, "Mesh", "Material")
             = <<0>>
        /\ query_entities_with_mesh_but_no_material(World, "Mesh", "Material")
             = <<1>>
        /\ (last.ctype = "Mesh" /\ last.ctype2 = "Material") =>
             /\ last.op = "query_with" => last.ret = <<0>>
             /\ last.op = "query_with_only" => last.ret = <<1>>

\* C13 witness: the scenario is complete, Material was registered before
\* Mesh, and query_with_only::<Mesh,Material> has returned [e1].
C13_Witness ==
    /\ ScenarioDone
    /\ component_vecs[1].ctype = "Material"
    /\ last.op = "query_with_only"
    /\ last.ctype = "Mesh"
    /\ last.ctype2 = "Material"
    /\ last.ret = <<1>>

\* Entity e is in no result of either query of world w.
InNoQuery(w, e) ==
    \A T1 \in Types, T2 \in Types :
        /\ e \notin Elements(query_entities_with_material_and_mesh(w, T1, T2))
        /\ e \notin Elements(query_entities_with_mesh_but_no_material(w, T1, T2))

\* C14: new_entity appends exactly one absent slot to every existing
\* collection; from the moment it returns id until a component is added to
\* id, get_component::<T>(id) is nothing for every T and id is in no query
\* result.
C14_NewEntityAbsent ==
    /\ last.op = "new_entity" =>
         /\ Len(component_vecs) = Len(pre.component_vecs)
         /\ \A i \in 1..Len(pre.component_vecs) :
              /\ component_vecs[i].ctype = pre.component_vecs[i].ctype
              /\ component_vecs[i].slots
                   = pre.component_vecs[i].slots \o <<None>>
    /\ \A e \in 0..(entities_count - 1) :
         (\A T \in Types : <<e, T>> \notin written) =>
            /\ \A T \in Types : get_component(World, T, e) = None
            /\ InNoQuery(World, e)

\* C14 witness: new_entity has just returned the second id while the first
\* entity holds a value of each of the two registered types.
C14_Witness ==
    /\ last.op = "new_entity"
    /\ last.ret = <<1>>
    /\ \A T \in Types : Present(World, T, 0)
    /\ \A T \in Types : get_component(World, T, 1) = None

\* C15: when add_component_to_entity(e, v) stores a type T that has no
\* collection yet and n = entities_count entities exist, the new collection
\* has length n and every slot other than e is absent, so
\* get_component::<T>(e') is nothing for every e' # e.
C15_Backfill ==
    (/\ LastIsAdd
     /\ last.entity < pre.entities_count
     /\ ~Registered(pre, last.ctype)) =>
        /\ ~last.panicked
        /\ Len(component_vecs) = Len(pre.component_vecs) + 1
        /\ LET c == component_vecs[Len(component_vecs)]
           IN  /\ c.ctype = last.ctype
               /\ Len(c.slots) = entities_count
               /\ c.slots[last.entity + 1] = Some(last.component)
               /\ \A k \in 1..Len(c.slots) :
                    k # last.entity + 1 => c.slots[k] = None
        /\ \A e \in ReadArgs :
             e # last.entity => get_component(World, last.ctype, e) = None

\* C15 witness: a type was registered by an add to the first of two
\* entities, and the second one's slot of that type is absent.
C15_Witness ==
    /\ LastIsAdd
    /\ ~last.panicked
    /\ ~Registered(pre, last.ctype)
    /\ last.entity = 0
    /\ entities_count = 2
    /\ get_component(World, last.ctype, 0) = Some(last.component)
    /\ get_component(World, last.ctype, 1) = None

\* C16: no slot ever reverts to absent: a slot for which get_component
\* returned a value before a call returns one after it, and every slot ever
\* written returns a value in every later state.
C16_NeverReverts ==
    /\ \A T \in Types, e \in ReadArgs :
         is_some(get_component(pre, T, e)) =>
            is_some(get_component(World, T, e))
    /\ \A p \in written : is_some(get_component(World, p[2], p[1]))

\* C16 witness: the first entity kept its value through an add of another
\* value to the second entity's slot of the same type.
C16_Witness ==
    /\ LastIsAdd
    /\ ~last.panicked
    /\ last.entity = 1
    /\ Present(pre, last.ctype, 0)
    /\ is_some(get_component(World, last.ctype, 0))

\* C17: across every call the set of types that have a collection only
\* grows, entities_count never decreases and no collection's length
\* decreases; a type once added stays registered.
C17_MonotonicGrowth ==
    /\ entities_count >= pre.entities_count
    /\ \A T \in Types : Registered(pre, T) => Registered(World, T)
    /\ Len(component_vecs) >= Len(pre.component_vecs)
    /\ \A i \in 1..Len(pre.component_vecs) :
         /\ component_vecs[i].ctype = pre.component_vecs[i].ctype
         /\ Len(component_vecs[i].slots) >= Len(pre.component_vecs[i].slots)
    /\ \A T \in added_types : Registered(World, T)

\* C17 witness: an add registered a second type next to the one registered
\* before it.
C17_Witness ==
    /\ LastIsAdd
    /\ Len(pre.component_vecs) = 1
    /\ ~Registered(pre, last.ctype)
    /\ \A T \in Types : Registered(World, T)

\* C18: in every reachable state the store holds exactly one collection for
\* each type a returning add_component_to_entity stored and none for any
\* other type; an add of a registered type creates no collection.
C18_OneCollectionPerType ==
    /\ \A T \in Types :
         Cardinality(CollectionsOf(World, T))
           = IF T \in added_types THEN 1 ELSE 0
    /\ \A i \in 1..Len(component_vecs) :
         component_vecs[i].ctype \in added_types
    /\ (LastIsAdd /\ Registered(pre, last.ctype)) =>
         Len(component_vecs) = Len(pre.component_vecs)

\* C18 witness: an add of a type registered before the call returned, with
\* both types registered.
C18_Witness ==
    /\ LastIsAdd
    /\ ~last.panicked
    /\ Registered(pre, last.ctype)
    /\ Len(component_vecs) = 2

\* The last call was one of the three reads.
LastIsRead == last.op \in {"get_component", "query_with", "query_with_only"}

\* C19: get_component, query_with and query_with_only leave entities_count,
\* the registered collections and every slot unchanged, for every argument.
C19_ReadsPure ==
    LastIsRead =>
        /\ entities_count = pre.entities_count
        /\ component_vecs = pre.component_vecs

\* C19 witness: a get_component of an out-of-range entity and a type without
\* a collection, on a store that has an entity and a collection.
C19_Witness ==
    /\ last.op = "get_component"
    /\ last.entity >= entities_count
    /\ ~Registered(pre, last.ctype)
    /\ entities_count >= 1
    /\ Len(component_vecs) = 1

\* The <<entity, type>> slots present in world w.
PresentSlots(w) ==
    {p \in (0..MaxEntities) \X Types : Present(w, p[2], p[1])}

\* The elements of S below n, as an ascending sequence.
RECURSIVE AscendingFrom(_, _, _)
AscendingFrom(S, e, n) ==
    IF e >= n THEN <<>>
    ELSE (IF e \in S THEN <<e>> ELSE <<>>) \o AscendingFrom(S, e + 1, n)

\* World w with its collections in the opposite order of registration.
Reordered(w) ==
    [w EXCEPT !.component_vecs =
        [i \in 1..Len(@) |-> @[Len(@) + 1 - i]]]

\* World w with every stored value replaced by one and the same value.
Revalued(w) ==
    [w EXCEPT !.component_vecs =
        [i \in 1..Len(@) |->
           [@[i] EXCEPT !.slots =
              [k \in 1..Len(@) |-> IF @[k] = None THEN None ELSE Some("v1")]]]]

\* C20: the results of query_with and query_with_only are the ascending
\* sequences fixed by entities_count and the set of present slots alone:
\* the order in which the types were registered and the values stored do
\* not change them.
C20_HistoryIndependent ==
    \A T1 \in Types, T2 \in Types :
        LET P == PresentSlots(World)
            both == {e \in 0..MaxEntities : <<e, T1>> \in P /\ <<e, T2>> \in P}
            only == {e \in 0..MaxEntities : <<e, T1>> \in P /\ <<e, T2>> \notin P}
        IN  /\ query_entities_with_material_and_mesh(World, T1, T2)
                 = AscendingFrom(both, 0, entities_count)
            /\ query_entities_with_mesh_but_no_material(World, T1, T2)
                 = AscendingFrom(only, 0, entities_count)
            /\ \A w \in {Reordered(World), Revalued(World)} :
                 /\ query_entities_with_material_and_mesh(w, T1, T2)
                      = query_entities_with_material_and_mesh(World, T1, T2)
                 /\ query_entities_with_mesh_but_no_material(w, T1, T2)
                      = query_entities_with_mesh_but_no_material(World, T1, T2)

\* C20 witness: Material was registered before Mesh, the two entities hold
\* different Mesh values, and query_with_only::<Mesh,Material> returned the
\* second entity.
C20_Witness ==
    /\ Len(component_vecs) = 2
    /\ component_vecs[1].ctype = "Material"
    /\ get_component(World, "Mesh", 0) = Some("v2")
    /\ get_component(World, "Mesh", 1) = Some("v1")
    /\ last.op = "query_with_only"
    /\ last.ctype = "Mesh"
    /\ last.ctype2 = "Material"
    /\ last.ret = <<1>>

\* No new_entity and no add_component_to_entity has returned since
\* World::new.
FreshStore == returned_ids = <<>> /\ written = {}

\* C21: a freshly created store has entities_count = 0 and no collections;
\* get_component returns nothing and both queries return the empty sequence
\* for every type and entity.
C21_FreshStoreEmpty ==
    FreshStore =>
        /\ entities_count = 0
        /\ component_vecs = <<>>
        /\ \A T \in Types, e \in ReadArgs : get_component(World, T, e) = None
        /\ \A T1 \in Types, T2 \in Types :
             /\ query_entities_with_material_and_mesh(World, T1, T2) = <<>>
             /\ query_entities_with_mesh_but_no_material(World, T1, T2) = <<>>
        /\ LastIsRead => last.ret = <<>>

\* C21 witness: a query has returned on the store as World::new made it.
C21_Witness ==
    /\ FreshStore
    /\ last.op = "query_with_only"
    /\ last.ret = <<>>

\* C22: query_with_only::<T1,T2> returns the empty sequence whenever T1 has
\* never been registered, whether or not T2 is registered.
C22_QueryWithOnlyNoT1 ==
    /\ \A T1 \in Types \ added_types, T2 \in Types :
         query_entities_with_mesh_but_no_material(World, T1, T2) = <<>>
    /\ (last.op = "query_with_only" /\ last.ctype \notin added_types) =>
         last.ret = <<>>

\* C22 witness: the query returned nothing for a type never added, on a
\* store of two entities where the other type is registered and one entity
\* lacks it.
C22_Witness ==
    /\ last.op = "query_with_only"
    /\ last.ctype \notin added_types
    /\ last.ctype2 \in added_types
    /\ entities_count = 2
    /\ ~Present(World, last.ctype2, 1)
    /\ last.ret = <<>>

\* C23: add_component_to_entity::<T>(e, v) with e < entities_count changes
\* only the slot (T, e): entities_count is the same, every collection of
\* another type is the same, and every T slot of another entity keeps its
\* value or absence.
C23_AddFrame ==
    (LastIsAdd /\ last.entity < pre.entities_count) =>
        /\ entities_count = pre.entities_count
        /\ \A i \in 1..Len(pre.component_vecs) :
             pre.component_vecs[i].ctype # last.ctype =>
                component_vecs[i] = pre.component_vecs[i]
        /\ \A i \in 1..Len(component_vecs) :
             component_vecs[i].ctype # last.ctype =>
                i <= Len(pre.component_vecs)
        /\ \A U \in Types, x \in ReadArgs :
             (U # last.ctype \/ x # last.entity) =>
                get_component(World, U, x) = get_component(pre, U, x)

\* C23 witness: an add to the second entity of a registered type, while the
\* first entity holds a value of that type and one of the other type.
C23_Witness ==
    /\ LastIsAdd
    /\ ~last.panicked
    /\ last.entity = 1
    /\ Registered(pre, last.ctype)
    /\ \A T \in Types : Present(World, T, 0)

\* C24: new_entity changes nothing about the entities that existed: for
\* each of them and every type T, get_component::<T> returns after the call
\* what it returned before, and no type is registered by the call.
C24_NewEntityFrame ==
    last.op = "new_entity" =>
        /\ \A T \in Types, e \in 0..(pre.entities_count - 1) :
             get_component(World, T, e) = get_component(pre, T, e)
        /\ \A T \in Types : Registered(World, T) <=> Registered(pre, T)
        /\ Len(component_vecs) = Len(pre.component_vecs)

\* C24 witness: new_entity returned the second id while the first entity
\* holds a value of one registered type and none of the other.
C24_Witness ==
    /\ last.op = "new_entity"
    /\ last.ret = <<1>>
    /\ Len(component_vecs) = 2
    /\ \E T \in Types : Present(World, T, 0)

\* C25: for distinct types T1 # T2, in every reachable state, the results
\* of query_with::<T1,T2> and query_with_only::<T1,T2> are disjoint and
\* their union is exactly the set of entities whose T1 slot is present.
C25_QueriesPartition ==
    \A T1 \in Types, T2 \in Types :
        T1 # T2 =>
          LET with == Elements(
                        query_entities_with_material_and_mesh(World, T1, T2))
              only == Elements(
                        query_entities_with_mesh_but_no_material(World, T1, T2))
          IN  /\ with \cap only = {}
              /\ with \cup only = {e \in 0..(entities_count - 1) :
                                     Present(World, T1, e)}

\* C25 witness: of two entities holding T1 one holds T2 as well; the first
\* is the result of query_with and the second that of query_with_only.
C25_Witness ==
    /\ last.op = "query_with_only"
    /\ last.ctype # last.ctype2
    /\ last.ret = <<1>>
    /\ query_entities_with_material_and_mesh(World, last.ctype, last.ctype2)
         = <<0>>

\* C26: with both type parameters the same type T, query_with::<T,T>
\* returns exactly the entities holding T and query_with_only::<T,T>
\* returns the empty sequence, in every reachable state.
C26_SameType ==
    /\ \A T \in Types :
         LET r == query_entities_with_material_and_mesh(World, T, T)
         IN  /\ StrictlyAscending(r)
             /\ Elements(r) = {e \in 0..(entities_count - 1) :
                                 Present(World, T, e)}
             /\ query_entities_with_mesh_but_no_material(World, T, T) = <<>>
    /\ (LastIsRead /\ last.ctype = last.ctype2) =>
         /\ last.op = "query_with" =>
              Elements(last.ret) = {e \in 0..(entities_count - 1) :
                                      Present(World, last.ctype, e)}
         /\ last.op = "query_with_only" => last.ret = <<>>

\* C26 witness: query_with::<T,T> returned both entities, each holding T.
C26_Witness ==
    /\ last.op = "query_with"
    /\ last.ctype = last.ctype2
    /\ last.ret = <<0, 1>>

----------------------------------------------------------------------------
(* Claims about the camera controller and the event loop *)

\* The window event the last handling was given.
LastWindowEvent == app_last.event.event

\* The last event is a keyboard event on one of the eight camera keys.
IsCameraKey(event) ==
    /\ event.kind = "KeyboardInput"
    /\ is_some(event.virtual_keycode)
    /\ \E f \in Flags : event.virtual_keycode[1] \in FlagKeys[f]

\* C27: process_key_events, given a keyboard event for W/Up, A/Left,
\* S/Down or D/Right, sets only the matching flag (forward, left, backward,
\* right) to whether the event is a press, leaves the other three flags as
\* they were and returns true; given any other event it leaves all four
\* flags as they were and returns false.  Hence every flag equals whether
\* the latest event on one of its two keys was a press, false if none.
C27_KeyFlags ==
    /\ app_last.op = "process_key_events" =>
         IF IsCameraKey(LastWindowEvent)
         THEN /\ app_last.consumed
              /\ \A f \in Flags :
                   controller[f] =
                     IF LastWindowEvent.virtual_keycode[1] \in FlagKeys[f]
                     THEN LastWindowEvent.state = "Pressed"
                     ELSE app_pre.controller[f]
         ELSE /\ ~app_last.consumed
              /\ controller = app_pre.controller
    /\ controller = latest_press

\* C27 witness: the release of Left has cleared the left flag, which was
\* set, and kept the forward flag set; the call returned true.
C27_Witness ==
    /\ app_last.op = "process_key_events"
    /\ LastWindowEvent.kind = "KeyboardInput"
    /\ LastWindowEvent.virtual_keycode = Some("Left")
    /\ LastWindowEvent.state = "Released"
    /\ app_pre.controller.is_left_pressed
    /\ app_pre.controller.is_forward_pressed
    /\ ~controller.is_left_pressed
    /\ controller.is_forward_pressed
    /\ app_last.consumed

\* The last step was the closure handling a window event addressed to the
\* application window.
LastIsWindowEvent ==
    /\ app_last.op = "event_handler"
    /\ app_last.event.kind = "WindowEvent"
    /\ app_last.event.window_id = "window"

\* The window event is CloseRequested or a press of Escape.
IsExitRequest(event) ==
    \/ event.kind = "CloseRequested"
    \/ /\ event.kind = "KeyboardInput"
       /\ event.state = "Pressed"
       /\ event.virtual_keycode = Some("Escape")

\* C28: in the closure of run(), every CloseRequested event and every press
\* of Escape addressed to the application window sets control flow to Exit,
\* and the camera controller does not consume them; a window event the
\* camera controller consumes (W/A/S/D and the arrow keys) causes neither
\* an exit nor a resize: control flow, size and configuration stay as they
\* were and State::resize is not called.
C28_ExitDispatch ==
    LastIsWindowEvent =>
        /\ IsExitRequest(LastWindowEvent) =>
             /\ ~app_last.consumed
             /\ control_flow = "Exit"
        /\ app_last.consumed =>
             /\ IsCameraKey(LastWindowEvent)
             /\ control_flow = app_pre.control_flow
             /\ size = app_pre.size
             /\ config = app_pre.config
             /\ app_last.resize_arg = None
             /\ ~app_last.configured

\* C28 witness: a press of Escape addressed to the application window has
\* turned control flow from Poll to Exit while the forward flag was set.
C28_Witness ==
    /\ LastIsWindowEvent
    /\ LastWindowEvent.kind = "KeyboardInput"
    /\ LastWindowEvent.virtual_keycode = Some("Escape")
    /\ LastWindowEvent.state = "Pressed"
    /\ app_pre.control_flow = "Poll"
    /\ app_pre.controller.is_forward_pressed
    /\ control_flow = "Exit"
    /\ ~app_last.consumed

\* The last step was the closure handling RedrawRequested for the
\* application window.
LastIsRedraw == app_last.op = "event_handler" /\ Renders(app_last.event)

\* A size with a zero dimension.
Degenerate(sz) == sz.width = 0 \/ sz.height = 0

C30_ResizeGuard ==
    /\ config.width = size.width
    /\ config.height = size.height
    /\ is_some(app_last.resize_arg) =>
         LET new_size == app_last.resize_arg[1]
         IN  IF Degenerate(new_size)
             THEN /\ size = app_pre.size
                  /\ config = app_pre.config
                  /\ ~app_last.configured
             ELSE /\ size = new_size
                  /\ config.width = new_size.width
                  /\ config.height = new_size.height
                  /\ app_last.configured
                  /\ ~Degenerate(size)
    /\ size # app_pre.size => ~Degenerate(size)

\* C30 witness: a Resized event with width 0 and a positive height has left
\* the size and the configuration of a window resized before as they were.
C30_Witness ==
    /\ LastIsWindowEvent
    /\ LastWindowEvent.kind = "Resized"
    /\ app_last.resize_arg = Some(PhysicalSize(0, MaxDim))
    /\ app_pre.size = PhysicalSize(MaxDim, 1)
    /\ size = PhysicalSize(MaxDim, 1)
    /\ config = PhysicalSize(MaxDim, 1)

====
